---- MODULE Spec2Model ----
(***************************************************************************)
(* A model of get_indd_scans.py: the subject-ID filter, the DICOM cache,   *)
(* the column extractor, the acquisition lister and the report driver.     *)
(*                                                                         *)
(* Python strings are sequences of one-character strings, so that regular  *)
(* expressions, startswith and slicing are computed character by           *)
(* character.  A Python value is a record tagged by its type:              *)
(*   [t |-> "none"], [t |-> "str", v |-> chars], [t |-> "list", v |-> seq] *)
(*   [t |-> "dict", v |-> function from chars to values].                  *)
(***************************************************************************)
EXTENDS Integers, Sequences, FiniteSets, TLC

VARIABLES
    subject_name,   \* fn_filter_inddid: the argument
    filter_ret,     \* fn_filter_inddid: the returned value, or Pending
    column,         \* make_output_text: the column argument
    fw_file,        \* make_output_text: the file reference argument
    dcm,            \* make_output_text: the tag set argument
    output_text,    \* make_output_text: the returned value, or Pending
    run,            \* get_indd_scans: the number of this invocation
    subject,        \* --subject: None or a subject label
    modality,       \* mod_fw: "MR" or "PT"
    dicom_cache,    \* --cache: whether a cache directory is configured
    pc,             \* where the driver is: "list", "iter", "done", "crashed"
    sp,             \* index into search_paths of the current fw_list_acq call
    stream,         \* the acquisitions client.acquisitions.iter_find yields
    pos,            \* how many of them the loop has consumed
    sess_cache,     \* fw_list_acq's local session cache: session id -> record
    rows,           \* what csv_stream.writerow has written in this run
    cache,          \* the cache directory: acquisition id -> file
    modified,       \* the remote service: acquisition id -> acq.modified
    remote_log,     \* the remote calls made in this run, in order
    parsed,         \* acquisition id -> how fw_parse_acq_dicom ended in this run
    lookup,         \* acquisition id -> how its cache lookup went in this run
    ret,            \* what the last call of fw_parse_acq_dicom returned
    seen,           \* the acquisitions the loop has taken in this run, in order
    crash           \* the place an exception escaped from, or "none"

filter_vars == <<subject_name, filter_ret>>
column_vars == <<column, fw_file, dcm, output_text>>
run_vars == <<run, subject, modality, dicom_cache, pc, sp, stream, pos,
              sess_cache, rows, cache, modified, remote_log, parsed, lookup,
              ret, seen, crash>>
vars == <<filter_vars, column_vars, run_vars>>

---------------------------------------------------------------------------
(* Python values *)

None == [t |-> "none"]
Str(s) == [t |-> "str", v |-> s]
Pending == [t |-> "pending"]

NL == "\n"
Digits == {"0", "1", "2", "3", "4", "5", "6", "7", "8", "9"}

---------------------------------------------------------------------------
(* The regular expressions of fn_filter_inddid.  re.search with a leading  *)
(* ^ and no flags matches at position 0 only; '.' matches every character  *)
(* but the newline; '$' matches at the end of the string and also just     *)
(* before a newline that is the string's last character.                   *)

IdDigits == 6
SubDigits == 2
Separators == {".", "_", "-"}

\* '$' after i characters of s have been consumed
DollarAt(s, i) ==
    \/ i = Len(s)
    \/ i = Len(s) - 1 /\ s[Len(s)] = NL

AllDigits(s, from, to) == \A k \in from..to : s[k] \in Digits

\* '^IND{1,2}(.*)$': the ways to match, as <<number of D, length of group 1>>
StripMatches(s) ==
    { m \in (1..2) \X (0..Len(s)) :
        /\ Len(s) >= 2 + m[1] + m[2]
        /\ s[1] = "I" /\ s[2] = "N"
        /\ \A k \in 3..(2 + m[1]) : s[k] = "D"
        /\ \A k \in 1..m[2] : s[2 + m[1] + k] # NL
        /\ DollarAt(s, 2 + m[1] + m[2]) }

\* both quantifiers are greedy: the most D first, then the longest group
GreedyStrip(s) ==
    LET M == StripMatches(s)
        d == CHOOSE d \in {m[1] : m \in M} : \A m \in M : m[1] <= d
        n == CHOOSE n \in {m[2] : m \in {x \in M : x[1] = d}} :
                 \A m \in {x \in M : x[1] = d} : m[2] <= n
    IN  SubSeq(s, 2 + d + 1, 2 + d + n)

\* '^[0-9]{6}$'
MatchSix(s) ==
    /\ Len(s) >= IdDigits
    /\ AllDigits(s, 1, IdDigits)
    /\ DollarAt(s, IdDigits)

\* '^([0-9]{6})[\._\-]([0-9]{2})$'
MatchEight(s) ==
    /\ Len(s) >= IdDigits + 1 + SubDigits
    /\ AllDigits(s, 1, IdDigits)
    /\ s[IdDigits + 1] \in Separators
    /\ AllDigits(s, IdDigits + 2, IdDigits + 1 + SubDigits)
    /\ DollarAt(s, IdDigits + 1 + SubDigits)

fn_filter_inddid(s) ==
    LET name == IF StripMatches(s) # {} THEN GreedyStrip(s) ELSE s
    IN  IF MatchSix(name) THEN Str(SubSeq(name, 1, IdDigits))
        ELSE IF MatchEight(name)
             THEN Str(SubSeq(name, 1, IdDigits) \o <<".">>
                      \o SubSeq(name, IdDigits + 2, IdDigits + 1 + SubDigits))
             ELSE None

---------------------------------------------------------------------------
(* More Python values: numbers (by their str()), lists, dicts, exceptions *)

Num(s) == [t |-> "num", v |-> s]
List(xs) == [t |-> "list", v |-> xs]
Dict(f) == [t |-> "dict", v |-> f]
Raise(e) == [t |-> "raise", v |-> e]
EmptyDict == Dict(<<>>)

\* d.get(key, default)
Get(d, key, default) ==
    IF d.t # "dict" THEN Raise("AttributeError")
    ELSE IF key \in DOMAIN d.v THEN d.v[key] ELSE default

\* x[i], i counted from 0
Index(x, i) ==
    IF x.t = "list"
    THEN IF i < Len(x.v) THEN x.v[i + 1] ELSE Raise("IndexError")
    ELSE IF x.t = "str"
         THEN IF i < Len(x.v) THEN Str(<<x.v[i + 1]>>) ELSE Raise("IndexError")
         ELSE Raise("TypeError")

RECURSIVE JoinSeq(_, _)
JoinSeq(sep, parts) ==
    IF parts = <<>> THEN <<>>
    ELSE IF Len(parts) = 1 THEN parts[1]
    ELSE parts[1] \o sep \o JoinSeq(sep, Tail(parts))

\* sep.join(x): x a list of str, or a str (joined character by character)
Join(sep, x) ==
    IF x.t = "list"
    THEN IF \A i \in 1..Len(x.v) : x.v[i].t = "str"
         THEN Str(JoinSeq(sep, [i \in 1..Len(x.v) |-> x.v[i].v]))
         ELSE Raise("TypeError")
    ELSE IF x.t = "str"
         THEN Str(JoinSeq(sep, [i \in 1..Len(x.v) |-> <<x.v[i]>>]))
         ELSE Raise("TypeError")

\* the truth value of "x and len(x) > 0"
NonEmpty(x) == x.t = "list" /\ Len(x.v) > 0

StartsWith(s, prefix) ==
    Len(s) >= Len(prefix) /\ SubSeq(s, 1, Len(prefix)) = prefix

\* s[n:]
DropFirst(s, n) == SubSeq(s, n + 1, Len(s))

s_None == <<"N","o","n","e">>
s_FlywheelAcquisition == <<"F","l","y","w","h","e","e","l","A","c","q","u","i","s","i","t","i","o","n">>
s_DicomPixelSpacing == <<"D","i","c","o","m","P","i","x","e","l","S","p","a","c","i","n","g">>
s_Dicom == <<"D","i","c","o","m">>
s_classification == <<"c","l","a","s","s","i","f","i","c","a","t","i","o","n">>
s_PixelSpacing == <<"P","i","x","e","l","S","p","a","c","i","n","g">>
s_RadiopharmaceuticalInformationSequence == <<"R","a","d","i","o","p","h","a","r","m","a","c","e","u","t","i","c","a","l","I","n","f","o","r","m","a","t","i","o","n","S","e","q","u","e","n","c","e">>
s_Radiopharmaceutical == <<"R","a","d","i","o","p","h","a","r","m","a","c","e","u","t","i","c","a","l">>
s_RadionuclideCodeSequence == <<"R","a","d","i","o","n","u","c","l","i","d","e","C","o","d","e","S","e","q","u","e","n","c","e">>
s_CodeMeaning == <<"C","o","d","e","M","e","a","n","i","n","g">>
s_url_projects == <<"h","t","t","p","s",":","/","/","u","p","e","n","n",".","f","l","y","w","h","e","e","l",".","i","o","/","#","/","p","r","o","j","e","c","t","s","/">>
s_url_sessions == <<"/","s","e","s","s","i","o","n","s","/">>
s_url_tab == <<"?","t","a","b","=","d","a","t","a">>

\* "%s" % val
RECURSIVE Format(_)
Format(val) ==
    CASE val.t = "none" -> s_None
      [] val.t = "str" -> val.v
      [] val.t = "num" -> val.v
      [] val.t = "list" ->
            <<"[">> \o JoinSeq(<<",", " ">>,
                               [i \in 1..Len(val.v) |-> Format(val.v[i])])
                    \o <<"]">>

---------------------------------------------------------------------------
(* List of columns returned for each modality *)

modality_cols == [
        COMMON |-> <<
            <<"I","N","D","D","I","D">>,
            <<"F","l","y","w","h","e","e","l","S","u","b","j","e","c","t","I","D">>,
            <<"F","l","y","w","h","e","e","l","S","e","s","s","i","o","n","T","i","m","e","s","t","a","m","p","U","T","C">>,
            <<"F","l","y","w","h","e","e","l","S","e","s","s","i","o","n","U","R","L">>,
            <<"F","l","y","w","h","e","e","l","S","e","s","s","i","o","n","I","n","t","e","r","n","a","l","I","D">>,
            <<"F","l","y","w","h","e","e","l","P","r","o","j","e","c","t","I","n","t","e","r","n","a","l","I","D">>,
            <<"F","l","y","w","h","e","e","l","A","c","q","u","i","s","i","t","i","o","n","L","a","b","e","l">>,
            <<"F","l","y","w","h","e","e","l","A","c","q","u","i","s","i","t","i","o","n","I","n","t","e","n","t">>,
            <<"F","l","y","w","h","e","e","l","A","c","q","u","i","s","i","t","i","o","n","M","e","a","s","u","r","e","m","e","n","t">>,
            <<"F","l","y","w","h","e","e","l","A","c","q","u","i","s","i","t","i","o","n","F","e","a","t","u","r","e","s">>,
            <<"D","i","c","o","m","M","o","d","a","l","i","t","y">>,
            <<"D","i","c","o","m","I","n","s","t","i","t","u","t","i","o","n","N","a","m","e">>,
            <<"D","i","c","o","m","S","t","a","t","i","o","n","N","a","m","e">>,
            <<"D","i","c","o","m","B","o","d","y","P","a","r","t","E","x","a","m","i","n","e","d">>,
            <<"D","i","c","o","m","S","t","u","d","y","I","n","s","t","a","n","c","e","U","I","D">>,
            <<"D","i","c","o","m","S","e","r","i","e","s","I","n","s","t","a","n","c","e","U","I","D">>,
            <<"D","i","c","o","m","S","l","i","c","e","T","h","i","c","k","n","e","s","s">>,
            <<"D","i","c","o","m","P","i","x","e","l","S","p","a","c","i","n","g","X">>,
            <<"D","i","c","o","m","P","i","x","e","l","S","p","a","c","i","n","g","Y">> >>,
        MR |-> <<
            <<"D","i","c","o","m","M","a","g","n","e","t","i","c","F","i","e","l","d","S","t","r","e","n","g","t","h">>,
            <<"D","i","c","o","m","S","e","q","u","e","n","c","e","N","a","m","e">>,
            <<"D","i","c","o","m","R","e","p","e","t","i","t","i","o","n","T","i","m","e">>,
            <<"D","i","c","o","m","E","c","h","o","T","i","m","e">>,
            <<"D","i","c","o","m","E","c","h","o","N","u","m","b","e","r","s">>,
            <<"D","i","c","o","m","F","l","i","p","A","n","g","l","e">>,
            <<"D","i","c","o","m","N","u","m","b","e","r","O","f","A","v","e","r","a","g","e","s">>,
            <<"D","i","c","o","m","A","c","q","u","i","s","i","t","i","o","n","N","u","m","b","e","r">>,
            <<"D","i","c","o","m","S","p","a","c","i","n","g","B","e","t","w","e","e","n","S","l","i","c","e","s">> >>,
        PT |-> <<
            <<"D","i","c","o","m","R","e","c","o","n","s","t","r","u","c","t","i","o","n","M","e","t","h","o","d">>,
            <<"D","i","c","o","m","S","c","a","t","t","e","r","C","o","r","r","e","c","t","i","o","n","M","e","t","h","o","d">>,
            <<"D","i","c","o","m","A","t","t","e","n","u","a","t","i","o","n","C","o","r","r","e","c","t","i","o","n","M","e","t","h","o","d">>,
            <<"D","i","c","o","m","R","a","d","i","o","p","h","a","r","m","a","c","e","u","t","i","c","a","l">>,
            <<"D","i","c","o","m","R","a","d","i","o","n","u","c","l","i","d","e">> >> ]

---------------------------------------------------------------------------
(* make_output_text(sess, fw_acq, fw_file, dcm, column): the string for     *)
(* one column, or the exception it raises                                   *)

\* lines 214-223: the keys of action_dict, and the value it holds for one
action_dict_keys ==
    { modality_cols.COMMON[i] : i \in 1..7 }

action_dict(sess, fw_acq, col) ==
    CASE col = modality_cols.COMMON[1] -> sess.indd_id
      [] col = modality_cols.COMMON[2] -> Str(sess.subject_id)
      [] col = modality_cols.COMMON[3] -> Str(sess.session_ts)
      [] col = modality_cols.COMMON[5] -> Str(fw_acq.parents.session)
      [] col = modality_cols.COMMON[6] -> Str(fw_acq.parents.project)
      [] col = modality_cols.COMMON[7] -> Str(fw_acq.label)
      [] col = modality_cols.COMMON[4] ->
            Str(s_url_projects \o fw_acq.parents.project \o s_url_sessions
                \o fw_acq.parents.session \o s_url_tab)

classification_val(file, col) ==
    LET key == DropFirst(col, Len(s_FlywheelAcquisition))
        fcl == Get(file, s_classification, EmptyDict)
    IN  IF fcl.t = "raise" THEN fcl
        ELSE IF fcl.t # "dict" THEN Raise("TypeError")
        ELSE IF key \in DOMAIN fcl.v THEN Join(<<";">>, fcl.v[key]) ELSE None

pixel_spacing_val(tags, col) ==
    LET spc == Get(tags, s_PixelSpacing, None)
    IN  IF spc.t = "none" THEN None
        ELSE IF Index(spc, 0).t = "raise" THEN Index(spc, 0)
        ELSE IF Index(spc, 1).t = "raise" THEN Index(spc, 1)
        ELSE IF col = s_DicomPixelSpacing \o <<"X">> THEN Index(spc, 0)
        ELSE IF col = s_DicomPixelSpacing \o <<"Y">> THEN Index(spc, 1)
        ELSE Raise("KeyError")

radiopharmaceutical_val(tags) ==
    LET rpis == Get(tags, s_RadiopharmaceuticalInformationSequence, None)
    IN  IF NonEmpty(rpis) THEN Get(rpis.v[1], s_Radiopharmaceutical, None)
        ELSE None

radionuclide_val(tags) ==
    LET rpis == Get(tags, s_RadiopharmaceuticalInformationSequence, None)
    IN  IF NonEmpty(rpis)
        THEN LET rcs == Get(rpis.v[1], s_RadionuclideCodeSequence, None)
             IN  IF rcs.t = "raise" THEN rcs
                 ELSE IF NonEmpty(rcs) THEN Get(rcs.v[1], s_CodeMeaning, None)
                 ELSE None
        ELSE None

column_val(sess, fw_acq, file, tags, col) ==
    IF col \in action_dict_keys
    THEN action_dict(sess, fw_acq, col)
    ELSE IF StartsWith(col, s_FlywheelAcquisition)
    THEN classification_val(file, col)
    ELSE IF StartsWith(col, s_DicomPixelSpacing)
    THEN pixel_spacing_val(tags, col)
    ELSE IF col = s_Dicom \o s_Radiopharmaceutical
    THEN radiopharmaceutical_val(tags)
    ELSE IF col = s_Dicom \o <<"R","a","d","i","o","n","u","c","l","i","d","e">>
    THEN radionuclide_val(tags)
    ELSE IF StartsWith(col, s_Dicom)
    THEN Get(tags, DropFirst(col, Len(s_Dicom)), None)
    ELSE None

make_output_text(sess, fw_acq, file, tags, col) ==
    LET val == column_val(sess, fw_acq, file, tags, col)
    IN  IF val.t = "raise" THEN val ELSE Str(Format(val))

---------------------------------------------------------------------------
(* Dates and JSON *)

TicksPerDay == 2

\* datetime.toordinal(): the day number; the time of day is dropped
toordinal(t) == t \div TicksPerDay

PyInt(n) == [t |-> "int", v |-> n]
Datetime(d) == [t |-> "datetime", v |-> d]

DigitChars == <<"0", "1", "2", "3", "4", "5", "6", "7", "8", "9">>
Pad2(n) == <<DigitChars[(n \div 10) + 1], DigitChars[(n % 10) + 1]>>
Pad4(n) == Pad2(n \div 100) \o Pad2(n % 100)

\* d.strftime("%Y-%m-%d %H:%M:%S"), which is also str(d)
strftime(d) ==
    Pad4(d.Y) \o <<"-">> \o Pad2(d.m) \o <<"-">> \o Pad2(d.d) \o <<" ">>
    \o Pad2(d.H) \o <<":">> \o Pad2(d.M) \o <<":">> \o Pad2(d.S)

\* json.dump(x, default=json_default_conv) followed by json.load: a datetime
\* comes back as its str(), everything else json can hold as itself
RECURSIVE JsonConv(_)
JsonConv(x) ==
    CASE x.t = "datetime" -> Str(strftime(x.v))
      [] x.t = "dict" -> Dict([k \in DOMAIN x.v |-> JsonConv(x.v[k])])
      [] x.t = "list" -> List([i \in 1..Len(x.v) |-> JsonConv(x.v[i])])
      [] OTHER -> x

\* dcm.to_json(): the tag set as JSON text
to_json(tags) == [t |-> "json", v |-> tags]

\* pydicom.dataset.Dataset.from_json(x): json.loads of text that is no JSON
\* raises ValueError and of None TypeError; JSON that is no object has no
\* items()
from_json(x) ==
    IF x.t = "json"
    THEN IF x.v.t = "dict" THEN x.v ELSE Raise("AttributeError")
    ELSE IF x.t = "str" THEN Raise("ValueError")
    ELSE IF x.t = "none" THEN Raise("TypeError")
    ELSE Raise("AttributeError")

k_dicom == <<"d","i","c","o","m">>
k_file == <<"f","i","l","e">>
k_modtime == <<"m","o","d","t","i","m","e">>
k_name == <<"n","a","m","e">>
k_type == <<"t","y","p","e">>
k_modified == <<"m","o","d","i","f","i","e","d">>
k_Intent == <<"I","n","t","e","n","t">>
k_Measurement == <<"M","e","a","s","u","r","e","m","e","n","t">>
k_Features == <<"F","e","a","t","u","r","e","s">>
k_Modality == <<"M","o","d","a","l","i","t","y">>
s_dicom == <<"d","i","c","o","m">>

---------------------------------------------------------------------------
(* The cache directory: one file per acquisition id *)

Absent == [kind |-> "absent"]            \* os.path.exists is false
Unreadable == [kind |-> "unreadable"]    \* exists, open() raises
NotJson == [kind |-> "text"]             \* content json.load rejects
Json(v) == [kind |-> "json", v |-> v]    \* content json.load returns as v

\* a plausible slip: the full modification time is stored, not its ordinal
cached_record_mut(tags, f, mod) ==
    Json(JsonConv(Dict((k_dicom :> to_json(tags))
                       @@ (k_file :> f)
                       @@ (k_modtime :> PyInt(mod)))))

\* lines 56-61: what a successful fetch stores
cached_record(tags, f, mod) ==
    Json(JsonConv(Dict((k_dicom :> to_json(tags))
                       @@ (k_file :> f)
                       @@ (k_modtime :> PyInt(toordinal(mod))))))

Hit(tags, f) == [r |-> "hit", dcm |-> tags, f |-> f]
Miss(why) == [r |-> "miss", why |-> why]
Escapes(e) == [r |-> "raise", e |-> e]

\* a plausible slip: the stored ordinal compared with the full timestamp
modtime_matches_mut(cached, mod) ==
    Get(cached, k_modtime, PyInt(0)) = PyInt(mod)

\* line 34
modtime_matches(cached, mod) ==
    Get(cached, k_modtime, PyInt(0)) = PyInt(toordinal(mod))

\* lines 28-40: the cache lookup of fw_parse_acq_dicom
read_cache(file, mod) ==
    IF file.kind = "absent" THEN Miss("absent")
    ELSE IF file.kind = "unreadable" THEN Escapes("IOError")
    ELSE IF file.kind = "text" THEN Miss("ValueError")
    ELSE IF file.v.t # "dict" THEN Escapes("AttributeError")
    ELSE IF modtime_matches(file.v, mod)
    THEN LET tags == from_json(Get(file.v, k_dicom, None))
         IN  IF tags.t = "raise"
             THEN IF tags.v = "ValueError" THEN Miss("ValueError")
                  ELSE Escapes(tags.v)
             ELSE Hit(tags, Get(file.v, k_file, None))
    ELSE Miss("modtime")

---------------------------------------------------------------------------
(* The remote service: two projects, three sessions, four acquisitions *)

search_paths == <<"cfn/PMC-CLINICAL", "dwolklab/NACC-SC">>

\* client.lookup(project_path).id
ProjectId(i) == <<"p", DigitChars[i + 1]>>

Session(sid) ==
    CASE sid = <<"s","1">> ->
           [subject |-> [label |-> <<"I","N","D","D","1","2","3","4","5","6">>],
            timestamp |-> [Y |-> 2019, m |-> 3, d |-> 7, H |-> 14, M |-> 5, S |-> 9]]
      [] sid = <<"s","2">> ->
           [subject |-> [label |-> <<"a","b","c","1","2","3">>],
            timestamp |-> [Y |-> 2020, m |-> 11, d |-> 30, H |-> 0, M |-> 0, S |-> 0]]
      [] sid = <<"s","3">> ->
           [subject |-> [label |-> <<"I","N","D","1","2","3","4","5","6","_","0","7">>],
            timestamp |-> [Y |-> 2021, m |-> 1, d |-> 2, H |-> 23, M |-> 59, S |-> 58]]

FileEntry(name, type, classification) ==
    Dict((k_name :> Str(name)) @@ (k_type :> Str(type))
         @@ (s_classification :> Dict(classification))
         @@ (k_modified :>
               Datetime([Y |-> 2021, m |-> 6, d |-> 15, H |-> 8, M |-> 30, S |-> 0])))

DicomZip ==
    FileEntry(<<"1",".","z","i","p">>, s_dicom,
              (k_Intent :> List(<<Str(<<"S","t","r">>), Str(<<"F","u","n">>)>>))
              @@ (k_Measurement :> List(<<Str(<<"T","1">>)>>)))

NiftiFile == FileEntry(<<"1",".","n","i","i">>, <<"n","i","f","t","i">>, <<>>)

Acqs == {"a1", "a2", "a3", "a4"}

Acquisition(a) ==
    CASE a = "a1" ->
           [id |-> a, label |-> <<"T","1","w">>, files |-> <<DicomZip>>,
            parents |-> [session |-> <<"s","1">>, project |-> ProjectId(1)]]
      [] a = "a2" ->
           [id |-> a, label |-> <<"P","E","T">>, files |-> <<NiftiFile, DicomZip>>,
            parents |-> [session |-> <<"s","1">>, project |-> ProjectId(1)]]
      [] a = "a3" ->
           [id |-> a, label |-> <<"T","2">>, files |-> <<DicomZip>>,
            parents |-> [session |-> <<"s","2">>, project |-> ProjectId(1)]]
      [] a = "a4" ->
           [id |-> a, label |-> <<"l","o","c">>, files |-> <<>>,
            parents |-> [session |-> <<"s","3">>, project |-> ProjectId(2)]]

\* what pydicom.dcmread decodes from the first member of a file of a
HeaderOf(a) ==
    IF a = "a2"
    THEN Dict((k_Modality :> Str(<<"P","T">>))
              @@ (s_RadiopharmaceuticalInformationSequence :>
                    List(<<Dict((s_Radiopharmaceutical :> Str(<<"F","D","G">>))
                                @@ (s_RadionuclideCodeSequence :>
                                      List(<<Dict(s_CodeMeaning :> Str(<<"F","1","8">>))>>)))>>)))
    ELSE Dict((k_Modality :> Str(<<"M","R">>))
              @@ (s_PixelSpacing :> List(<<Num(<<"0",".","5">>), Num(<<"0",".","7">>)>>)))

SubjectLabel(a) == Session(Acquisition(a).parents.session).subject.label

\* the acquisitions a filter of project i, and of a subject if one is given,
\* selects
Selected(i, subj) ==
    { a \in Acqs :
        /\ Acquisition(a).parents.project = ProjectId(i)
        /\ subj.t = "str" => SubjectLabel(a) = subj.v }

\* the orders iter_find may yield them in
Orders(S) ==
    { q \in [1..Cardinality(S) -> S] :
        \A i, j \in 1..Cardinality(S) : q[i] = q[j] => i = j }

---------------------------------------------------------------------------
(* fw_parse_acq_dicom(acq, dicom_cache) *)

NotFound == [dcm |-> None, f |-> None]
Found(tags, f) == [dcm |-> tags, f |-> f]

FetchOutcomes ==
    {"zip_info_fails", "read_fails", "decode_fails", "ok",
     "cache_open_fails", "cache_dump_fails"}

\* line 45: the condition of the generator is a lambda object, not a call of
\* it; an object is true
FileCondition(x) == TRUE

\* line 45: next(x for x in acq.files if ...)
FirstFile(files) ==
    IF \E i \in 1..Len(files) : FileCondition(files[i])
    THEN files[CHOOSE i \in 1..Len(files) :
                  /\ FileCondition(files[i])
                  /\ \A j \in 1..(i - 1) : ~FileCondition(files[j])]
    ELSE Raise("StopIteration")

ZipInfoCall(a, f) == [op |-> "get_file_zip_info", of |-> a, name |-> f.v[k_name].v]
ReadCall(a, f) == [op |-> "read_file_zip_member", of |-> a, name |-> f.v[k_name].v]

\* lines 43-75: the fetch; out is how the remote calls, the decoding and the
\* cache write go.  Returns what is returned, the cache file afterwards, and
\* the remote calls made.
fetch_dicom(acq, mod, use_cache, file, out) ==
    LET f == FirstFile(acq.files)
    IN  IF f.t = "raise"
        THEN [ret |-> NotFound, file |-> file, calls |-> <<>>]
        ELSE IF out = "zip_info_fails"
        THEN [ret |-> NotFound, file |-> file, calls |-> <<ZipInfoCall(acq.id, f)>>]
        ELSE IF out \in {"read_fails", "decode_fails"}
        THEN [ret |-> NotFound, file |-> file,
              calls |-> <<ZipInfoCall(acq.id, f), ReadCall(acq.id, f)>>]
        ELSE IF use_cache /\ out = "cache_open_fails"
        THEN [ret |-> NotFound, file |-> file,
              calls |-> <<ZipInfoCall(acq.id, f), ReadCall(acq.id, f)>>]
        ELSE IF use_cache /\ out = "cache_dump_fails"
        THEN [ret |-> NotFound, file |-> NotJson,
              calls |-> <<ZipInfoCall(acq.id, f), ReadCall(acq.id, f)>>]
        ELSE [ret |-> Found(HeaderOf(acq.id), f),
              file |-> IF use_cache
                       THEN cached_record(HeaderOf(acq.id), f, mod)
                       ELSE file,
              calls |-> <<ZipInfoCall(acq.id, f), ReadCall(acq.id, f)>>]

\* lines 25-75
fw_parse_acq_dicom(acq, mod, use_cache, file, out) ==
    LET c == IF use_cache THEN read_cache(file, mod) ELSE Miss("off")
    IN  IF c.r = "hit"
        THEN [exc |-> "none", lookup |-> "hit", ret |-> Found(c.dcm, c.f),
              file |-> file, calls |-> <<>>]
        ELSE IF c.r = "raise"
        THEN [exc |-> c.e, lookup |-> c.e, ret |-> NotFound,
              file |-> file, calls |-> <<>>]
        ELSE [exc |-> "none", lookup |-> c.why]
             @@ fetch_dicom(acq, mod, use_cache, file, out)

---------------------------------------------------------------------------
(* fw_make_acq_modality_filter(client, modality, project_path, subject):   *)
(* proj_found and subj_found are the answers of client.lookup              *)

fw_make_acq_modality_filter(i, subj, proj_found, subj_found) ==
    IF ~proj_found THEN Raise("ApiException")
    ELSE IF subj.t # "none"
    THEN IF subj_found
         THEN [t |-> "filter", project |-> i, subject |-> subj]
         ELSE None
    ELSE [t |-> "filter", project |-> i, subject |-> None]

---------------------------------------------------------------------------
(* fw_list_acq and get_indd_scans *)

MaxRuns == 2
MaxTouches == 2
StartTime == 2

col_list == modality_cols.COMMON \o modality_cols[modality]

\* lines 295-299
session_record(sess) ==
    [indd_id |-> fn_filter_inddid(sess.subject.label),
     subject_id |-> sess.subject.label,
     session_ts |-> strftime(sess.timestamp)]

\* lines 284-299 for each session of the remote service, computed once
SessionIds == { Acquisition(a).parents.session : a \in Acqs }
loaded_session == [sid \in SessionIds |-> session_record(Session(sid))]

\* a plausible slip: the session is loaded for every acquisition
in_sess_cache_mut(sess_id) == FALSE

\* line 281
in_sess_cache(sess_id) == sess_id \in DOMAIN sess_cache

\* a plausible slip: the check of the subject ID is left out
no_indd_id_mut(S) == FALSE

\* line 305
no_indd_id(S) == S.indd_id.t = "none"

\* lines 316-317
row_data(S, acq, f, tags) ==
    [i \in 1..Len(col_list) |-> make_output_text(S, acq, f, tags, col_list[i])]

RunInit ==
    /\ run = 1
    /\ subject \in {None, Str(Session(<<"s","1">>).subject.label)}
    /\ modality \in {"MR", "PT"}
    /\ dicom_cache \in BOOLEAN
    /\ pc = "list"
    /\ sp = 1
    /\ stream = <<>>
    /\ pos = 0
    /\ sess_cache = <<>>
    /\ rows = <<>>
    /\ modified = [a \in Acqs |-> StartTime]
    /\ remote_log = <<>>
    /\ parsed = [a \in Acqs |-> "uncalled"]
    /\ lookup = [a \in Acqs |-> "uncalled"]
    /\ ret = NotFound
    /\ seen = <<>>
    /\ crash = "none"

\* the files a cache directory may hold for an acquisition when the program
\* starts: left by an earlier run or by anything else
OldHeader == Dict(k_Modality :> Str(<<"O","T">>))

InitialFiles(a) ==
    { Absent, Unreadable, NotJson,
      Json(List(<<>>)),
      Json(Dict(k_modtime :> PyInt(toordinal(StartTime)))),
      Json(Dict((k_modtime :> PyInt(toordinal(StartTime)))
                @@ (k_dicom :> Str(<<"{">>)))),
      Json(Dict((k_modtime :> PyInt(toordinal(StartTime)))
                @@ (k_dicom :> to_json(List(<<>>))))),
      cached_record(HeaderOf(a), Acquisition(a).files[1], StartTime),
      cached_record(OldHeader, Acquisition(a).files[1], StartTime - TicksPerDay) }

CacheInit ==
    IF dicom_cache
    THEN \E file \in InitialFiles("a1") :
            cache = [b \in Acqs |-> IF b = "a1" THEN file ELSE Absent]
    ELSE cache = [b \in Acqs |-> Absent]

\* the driver's loop over search_paths, lines 366-367
NextPath ==
    IF sp < Len(search_paths)
    THEN /\ sp' = sp + 1
         /\ pc' = "list"
    ELSE /\ pc' = "done"
         /\ UNCHANGED sp

LookupCall(what) == [op |-> "lookup", of |-> what, name |-> <<>>]

\* lines 264-277: the filter; no filter, return; else the listing starts
MakeFilter ==
    /\ pc = "list"
    /\ \E proj_found \in BOOLEAN :
       \E subj_found \in {FALSE} \cup {x \in {TRUE} : Selected(sp, subject) # {}} :
       \E order \in Orders(Selected(sp, subject)) :
         LET fw_filter == fw_make_acq_modality_filter(sp, subject, proj_found, subj_found)
         IN  /\ remote_log' = remote_log \o <<LookupCall("project")>>
                    \o IF proj_found /\ subject.t # "none"
                       THEN <<LookupCall("subject")>> ELSE <<>>
             /\ IF fw_filter.t = "raise"
                THEN /\ pc' = "crashed"
                     /\ crash' = "lookup"
                     /\ UNCHANGED <<sp, stream, pos, sess_cache>>
                ELSE IF fw_filter.t = "none"
                THEN /\ NextPath
                     /\ UNCHANGED <<crash, stream, pos, sess_cache>>
                ELSE /\ pc' = "iter"
                     /\ stream' = order
                     /\ pos' = 0
                     /\ sess_cache' = <<>>
                     /\ UNCHANGED <<crash, sp>>
    /\ UNCHANGED <<run, subject, modality, dicom_cache, rows, cache, modified,
                   parsed, lookup, ret, seen, filter_vars, column_vars>>

GetSessionCall(sess_id) == [op |-> "get_session", of |-> "", name |-> sess_id]

\* lines 277-320: one turn of the loop.  sess_found is whether
\* client.get_session returns; out is how the fetch goes.
ProcessAcq ==
    /\ pc = "iter"
    /\ pos < Len(stream)
    /\ \E sess_found \in BOOLEAN : \E out \in FetchOutcomes :
         LET a == stream[pos + 1]
             acq == Acquisition(a)
             sess_id == acq.parents.session
             load == ~in_sess_cache(sess_id)
             log1 == IF load THEN Append(remote_log, GetSessionCall(sess_id))
                     ELSE remote_log
             S == IF load THEN loaded_session[sess_id] ELSE sess_cache[sess_id]
             P == fw_parse_acq_dicom(acq, modified[a], dicom_cache, cache[a], out)
             data == row_data(S, acq, P.ret.f, P.ret.dcm)
         IN  /\ seen' = Append(seen, a)
             /\ IF load /\ ~sess_found
                THEN /\ pc' = "crashed"
                     /\ crash' = "get_session"
                     /\ remote_log' = log1
                     /\ UNCHANGED <<pos, sess_cache, rows, cache, parsed,
                                    lookup, ret>>
                ELSE /\ sess_cache' = IF load THEN (sess_id :> S) @@ sess_cache
                                      ELSE sess_cache
                     /\ IF no_indd_id(S)
                        THEN /\ pos' = pos + 1
                             /\ remote_log' = log1
                             /\ UNCHANGED <<pc, crash, rows, cache, parsed,
                                            lookup, ret>>
                        ELSE /\ remote_log' = log1 \o P.calls
                             /\ cache' = [cache EXCEPT ![a] = P.file]
                             /\ lookup' = [lookup EXCEPT ![a] = P.lookup]
                             /\ IF P.exc # "none"
                                THEN /\ pc' = "crashed"
                                     /\ crash' = "cache"
                                     /\ parsed' = [parsed EXCEPT ![a] = "raised"]
                                     /\ UNCHANGED <<pos, rows, ret>>
                                ELSE /\ ret' = P.ret
                                     /\ IF P.ret.dcm.t = "none"
                                        THEN /\ pos' = pos + 1
                                             /\ parsed' = [parsed EXCEPT ![a] = "notfound"]
                                             /\ UNCHANGED <<pc, crash, rows>>
                                        ELSE /\ parsed' = [parsed EXCEPT ![a] = "found"]
                                             /\ IF \E i \in 1..Len(data) : data[i].t = "raise"
                                                THEN /\ pc' = "crashed"
                                                     /\ crash' = "columns"
                                                     /\ UNCHANGED <<pos, rows>>
                                                ELSE /\ pos' = pos + 1
                                                     /\ rows' = Append(rows,
                                                           [acq |-> a,
                                                            data |-> [i \in 1..Len(data) |-> data[i].v]])
                                                     /\ UNCHANGED <<pc, crash>>
    /\ UNCHANGED <<run, subject, modality, dicom_cache, sp, stream, modified,
                   filter_vars, column_vars>>

\* the loop of fw_list_acq is over: the driver takes the next search path
ReturnFromListing ==
    /\ pc = "iter"
    /\ pos = Len(stream)
    /\ NextPath
    /\ UNCHANGED <<run, subject, modality, dicom_cache, stream, pos, sess_cache,
                   rows, cache, modified, remote_log, parsed, lookup, ret, seen,
                   crash, filter_vars, column_vars>>

RECURSIVE SumOver(_, _)
SumOver(f, S) ==
    IF S = {} THEN 0
    ELSE LET x == CHOOSE x \in S : TRUE IN f[x] + SumOver(f, S \ {x})

\* the acquisitions that are modified while the program is not running
Modifiable == {"a1"}

Touches == SumOver(modified, Acqs) - Cardinality(Acqs) * StartTime

\* between two runs, an acquisition is modified on the remote service
Touch ==
    /\ pc \in {"done", "crashed"}
    /\ run < MaxRuns
    /\ Touches < MaxTouches
    /\ \E a \in Modifiable : modified' = [modified EXCEPT ![a] = modified[a] + 1]
    /\ UNCHANGED <<run, subject, modality, dicom_cache, pc, sp, stream, pos,
                   sess_cache, rows, cache, remote_log, parsed, lookup, ret, seen,
                   crash, filter_vars, column_vars>>

\* the program is started again, with the same options and cache directory
NewRun ==
    /\ pc \in {"done", "crashed"}
    /\ run < MaxRuns
    /\ run' = run + 1
    /\ pc' = "list"
    /\ sp' = 1
    /\ stream' = <<>>
    /\ pos' = 0
    /\ sess_cache' = <<>>
    /\ rows' = <<>>
    /\ remote_log' = <<>>
    /\ parsed' = [a \in Acqs |-> "uncalled"]
    /\ lookup' = [a \in Acqs |-> "uncalled"]
    /\ ret' = NotFound
    /\ seen' = <<>>
    /\ crash' = "none"
    /\ UNCHANGED <<subject, modality, dicom_cache, cache, modified,
                   filter_vars, column_vars>>

---------------------------------------------------------------------------
(* The specifications.  The two pure functions are checked on their own,   *)
(* with the rest of the state at rest.                                     *)

FilterIdle ==
    /\ subject_name = <<>>
    /\ filter_ret = Pending

ColumnIdle ==
    /\ column = <<>>
    /\ fw_file = None
    /\ dcm = None
    /\ output_text = Pending

RunIdle ==
    /\ run = 0
    /\ subject = None
    /\ modality = "MR"
    /\ dicom_cache = FALSE
    /\ pc = "off"
    /\ sp = 1
    /\ stream = <<>>
    /\ pos = 0
    /\ sess_cache = <<>>
    /\ rows = <<>>
    /\ cache = [a \in Acqs |-> Absent]
    /\ modified = [a \in Acqs |-> StartTime]
    /\ remote_log = <<>>
    /\ parsed = [a \in Acqs |-> "uncalled"]
    /\ lookup = [a \in Acqs |-> "uncalled"]
    /\ ret = NotFound
    /\ seen = <<>>
    /\ crash = "none"

Init == RunInit /\ CacheInit /\ FilterIdle /\ ColumnIdle

Next ==
    \/ MakeFilter
    \/ ProcessAcq
    \/ ReturnFromListing
    \/ Touch
    \/ NewRun

Spec == Init /\ [][Next]_vars

---------------------------------------------------------------------------
(* Claims about the run *)

Range(q) == { q[i] : i \in 1..Len(q) }

\* the acquisitions whose session's subject label matches the ID filter
Matching == { a \in Acqs : fn_filter_inddid(SubjectLabel(a)).t = "str" }
SubjectMatches(a) == a \in Matching

\* fw_parse_acq_dicom is called for a in this step
Called(a) == parsed[a] = "uncalled" /\ parsed'[a] # "uncalled"

IsFileCall(c) == c.op \in {"get_file_zip_info", "read_file_zip_member"}
FileCalls(log) == SelectSeq(log, IsFileCall)
FileCallsFor(a) == { i \in 1..Len(remote_log) :
                       IsFileCall(remote_log[i]) /\ remote_log[i].of = a }

\* a cache file that holds a record of tag set, file reference and ordinal
IsRecord(file) ==
    /\ file.kind = "json"
    /\ file.v.t = "dict"
    /\ {k_dicom, k_file, k_modtime} \subseteq DOMAIN file.v.v
    /\ file.v.v[k_dicom].t = "json"
    /\ file.v.v[k_dicom].v.t = "dict"

OrdinalOf(mod) == mod \div TicksPerDay

HasRow(a) == parsed[a] = "found" /\ SubjectMatches(a)

\* C1: the rows written are, in order, exactly the acquisitions taken from
\* the stream whose session's subject label matches the ID filter and for
\* which fw_parse_acq_dicom returned a tag set; every row holds one string
\* per column.
C1_RowsMatchAcquisitions ==
    /\ [i \in 1..Len(rows) |-> rows[i].acq] = SelectSeq(seen, HasRow)
    /\ \A i \in 1..Len(rows) : Len(rows[i].data) = Len(col_list)

C1_Witness ==
    /\ pc = "done"
    /\ Len(rows) = 2
    /\ "a3" \in Range(seen)
    /\ parsed["a4"] = "notfound"
    /\ seen[1] = "a3"

\* C2: with a cache directory configured and a readable record for the
\* acquisition whose stored ordinal is the current one, the call returns the
\* stored pair, makes no remote file call and leaves the cache as it was.
C2_FreshEntryIsHit ==
    [][\A a \in Acqs :
         ( /\ Called(a)
           /\ dicom_cache
           /\ IsRecord(cache[a])
           /\ cache[a].v.v[k_modtime] = PyInt(OrdinalOf(modified[a])) )
         => /\ parsed'[a] = "found"
            /\ ret' = [dcm |-> cache[a].v.v[k_dicom].v, f |-> cache[a].v.v[k_file]]
            /\ FileCalls(remote_log') = FileCalls(remote_log)
            /\ cache' = cache]_vars

C2_Witness ==
    \E a \in Acqs :
        /\ lookup[a] = "hit"
        /\ parsed[a] = "found"
        /\ FileCallsFor(a) = {}
        /\ modified[a] > StartTime
        /\ \E i \in 1..Len(rows) : rows[i].acq = a

Stale(file, mod) ==
    /\ file.kind = "json"
    /\ file.v.t = "dict"
    /\ k_modtime \in DOMAIN file.v.v
    /\ file.v.v[k_modtime] # PyInt(OrdinalOf(mod))

\* C3, as stated: on a record whose stored ordinal differs from the current
\* one the call fetches afresh and overwrites the record with the new tag
\* set, file reference and ordinal, so that a call with the same ordinal hits.
C3_StaleIsOverwritten ==
    [][\A a \in Acqs :
         (Called(a) /\ dicom_cache /\ Stale(cache[a], modified[a]))
         => /\ IsRecord(cache'[a])
            /\ cache'[a].v.v[k_modtime] = PyInt(OrdinalOf(modified[a]))
            /\ read_cache(cache'[a], modified[a]).r = "hit"]_vars

\* C3, amended: on such a record the call attempts a fresh fetch of the
\* first attached file; if fetch, decoding and cache write succeed, the record
\* is overwritten with the new tag set, the file reference as JSON and the
\* current ordinal, and a call at any time of the same day is a hit that
\* makes no remote call; otherwise not-found is returned and the file is the
\* old one or, when the write broke off, no longer JSON.
C3_StaleIsRefetched ==
    [][\A a \in Acqs :
         (Called(a) /\ dicom_cache /\ Stale(cache[a], modified[a]))
         => IF parsed'[a] = "found"
            THEN /\ FileCalls(remote_log') # FileCalls(remote_log)
                 /\ IsRecord(cache'[a])
                 /\ cache'[a].v.v[k_modtime] = PyInt(OrdinalOf(modified[a]))
                 /\ cache'[a].v.v[k_dicom] = to_json(ret'.dcm)
                 /\ cache'[a].v.v[k_file] = JsonConv(ret'.f)
                 /\ \A t \in 0..(StartTime + MaxTouches) :
                      OrdinalOf(t) = OrdinalOf(modified[a]) =>
                        LET again == fw_parse_acq_dicom(Acquisition(a), t, TRUE,
                                                       cache'[a], "zip_info_fails")
                        IN  /\ again.lookup = "hit"
                            /\ again.calls = <<>>
                            /\ again.ret.dcm = ret'.dcm
            ELSE /\ parsed'[a] = "notfound"
                 /\ ret' = NotFound
                 /\ cache'[a] \in {cache[a], NotJson}]_vars

C3_Witness ==
    \E a \in Acqs :
        /\ lookup[a] = "modtime"
        /\ parsed[a] = "found"
        /\ FileCallsFor(a) # {}
        /\ read_cache(cache[a], modified[a]).r = "hit"
        /\ modified[a] > StartTime

\* the cache files the claim calls malformed
Malformed(file) ==
    \/ file.kind = "text"
    \/ /\ file.kind = "json"
       /\ \/ file.v.t # "dict"
          \/ k_dicom \notin DOMAIN file.v.v
          \/ from_json(file.v.v[k_dicom]).t = "raise"

\* C4: a malformed cache file is a cache miss: the call raises nothing and
\* goes on to the remote fetch.
C4_MalformedIsMiss ==
    [][\A a \in Acqs :
         (Called(a) /\ dicom_cache /\ Malformed(cache[a]))
         => /\ parsed'[a] \in {"found", "notfound"}
            /\ lookup'[a] \in {"ValueError", "modtime"}
            /\ crash' = "none"]_vars

\* C5: when the project or the subject cannot be resolved, fw_list_acq
\* returns with no row written and no error, and the driver goes on to the
\* next search path.
C5_UnresolvedIsSilent ==
    [][(pc = "list" /\ pc' # "iter")
         => /\ crash' = "none"
            /\ rows' = rows
            /\ pc' = IF sp < Len(search_paths) THEN "list" ELSE "done"
            /\ sp' = IF sp < Len(search_paths) THEN sp + 1 ELSE sp]_vars

\* C6: whatever fails while one acquisition is processed, short of an
\* interrupt, the loop goes on to the next acquisition.
C6_OneBadAcqNeverAborts ==
    [][(pc = "iter" /\ pos < Len(stream))
         => /\ pc' = "iter"
            /\ pos' = pos + 1
            /\ crash' = "none"]_vars

\* the file the claim says is selected: the first of type dicom
IsFirstDicom(files, j) ==
    /\ files[j].v[k_type] = Str(s_dicom)
    /\ \A k \in 1..(j - 1) : files[k].v[k_type] # Str(s_dicom)

\* C7: on a cache miss only the first attached file of type dicom is
\* requested from the remote service, and nothing is requested for an
\* acquisition without one.
C7_OnlyFirstDicomFetched ==
    \A i \in 1..Len(remote_log) :
        IsFileCall(remote_log[i]) =>
            LET files == Acquisition(remote_log[i].of).files
            IN  \E j \in 1..Len(files) :
                    /\ IsFirstDicom(files, j)
                    /\ files[j].v[k_name] = Str(remote_log[i].name)

\* the record line 295 computes for each session
RecordOfSession ==
    [sid \in SessionIds |->
        [indd_id |-> fn_filter_inddid(Session(sid).subject.label),
         subject_id |-> Session(sid).subject.label,
         session_ts |-> strftime(Session(sid).timestamp)]]

\* C10: in a run client.get_session is called at most once for a session
\* id, the record kept for a session is the one computed when it was loaded,
\* and an acquisition of a session whose subject label fails the filter is
\* skipped with no cache lookup and no remote file call.
C10_SessionLoadedOnce ==
    /\ \A i, j \in 1..Len(remote_log) :
          (remote_log[i].op = "get_session" /\ remote_log[i] = remote_log[j])
              => i = j
    /\ \A sid \in DOMAIN sess_cache : sess_cache[sid] = RecordOfSession[sid]
    /\ \A a \in Acqs :
          ~SubjectMatches(a) =>
              /\ parsed[a] = "uncalled"
              /\ lookup[a] = "uncalled"
              /\ FileCallsFor(a) = {}

C10_Witness ==
    /\ pc = "done"
    /\ {"a1", "a2", "a3"} \subseteq Range(seen)
    /\ parsed["a1"] # "uncalled"
    /\ parsed["a2"] # "uncalled"
    /\ Cardinality({ i \in 1..Len(remote_log) :
                       remote_log[i] = GetSessionCall(<<"s","1">>) }) = 1
    /\ Cardinality({ i \in 1..Len(remote_log) :
                       remote_log[i] = GetSessionCall(<<"s","2">>) }) = 1

---------------------------------------------------------------------------
(* Specification SpecFilter: fn_filter_inddid applied to a bounded set of  *)
(* labels built as  prefix . digits . separator . digits . tail            *)

MaxExtraDigits == 1

DigitRun == <<"1", "2", "3", "4", "5", "6", "7", "8", "9", "0">>
Take(s, n) == SubSeq(s, 1, IF n < Len(s) THEN n ELSE Len(s))

LabelPrefixes == { <<>>, <<"I","N","D">>, <<"I","N","D","D">>,
                   <<"I","N","D","D","D">>, <<"I","N">>, <<"a">> }
LabelSeps == { <<>>, <<".">>, <<"_">>, <<"-">>, <<"/">> }
LabelTails == { <<>>, <<NL>>, <<"x">>, <<NL, NL>> }

Labels ==
    { p \o Take(DigitRun, n1) \o s \o Take(<<"0", "7", "3", "5">>, n2) \o tl :
        p \in LabelPrefixes,
        n1 \in {0} \cup ((IdDigits - 1)..(IdDigits + MaxExtraDigits)),
        s \in LabelSeps,
        n2 \in 0..(SubDigits + MaxExtraDigits),
        tl \in LabelTails }

FilterInit ==
    /\ subject_name \in Labels
    /\ filter_ret = Pending
    /\ ColumnIdle
    /\ RunIdle

ApplyFilter ==
    /\ filter_ret = Pending
    /\ filter_ret' = fn_filter_inddid(subject_name)
    /\ UNCHANGED <<subject_name, column_vars, run_vars>>

SpecFilter == FilterInit /\ [][ApplyFilter]_vars

\* C8: fn_filter_inddid returns, after one optional leading IND or INDD is
\* stripped, the remainder when it is exactly 6 digits, NNNNNN.NN when it is
\* 6 digits, one of . _ - and 2 digits, and None for every other string.
ClaimedRemainder(s) ==
    IF StartsWith(s, <<"I","N","D","D">>) THEN DropFirst(s, 4)
    ELSE IF StartsWith(s, <<"I","N","D">>) THEN DropFirst(s, 3)
    ELSE s

ClaimedFilter(s) ==
    LET r == ClaimedRemainder(s)
    IN  IF Len(r) = IdDigits /\ AllDigits(r, 1, IdDigits) THEN Str(r)
        ELSE IF /\ Len(r) = IdDigits + 1 + SubDigits
                /\ AllDigits(r, 1, IdDigits)
                /\ r[IdDigits + 1] \in Separators
                /\ AllDigits(r, IdDigits + 2, IdDigits + 1 + SubDigits)
             THEN Str(SubSeq(r, 1, IdDigits) \o <<".">>
                      \o SubSeq(r, IdDigits + 2, IdDigits + 1 + SubDigits))
             ELSE None

C8_FilterAsClaimed ==
    filter_ret # Pending => filter_ret = ClaimedFilter(subject_name)

---------------------------------------------------------------------------
(* Specification SpecColumn: make_output_text applied to the columns of    *)
(* both schemas and to a few names outside them, for a bounded set of file *)
(* references and tag sets                                                 *)

ColumnNames ==
    { modality_cols.COMMON[i] : i \in DOMAIN modality_cols.COMMON }
    \cup { modality_cols.MR[i] : i \in DOMAIN modality_cols.MR }
    \cup { modality_cols.PT[i] : i \in DOMAIN modality_cols.PT }
    \cup { <<>>, <<"F","o","o">>, s_Dicom, s_FlywheelAcquisition,
           s_DicomPixelSpacing, s_DicomPixelSpacing \o <<"Z">>,
           s_Dicom \o <<"M","i","s","s","i","n","g">>,
           s_FlywheelAcquisition \o <<"N","o","n","e">> }

FileRefs ==
    { EmptyDict,
      Dict(s_classification :> EmptyDict),
      Dict(s_classification :>
             Dict(k_Intent :> List(<<Str(<<"S","t","r","u","c","t","u","r","a","l">>)>>))),
      Dict(s_classification :>
             Dict((k_Intent :> List(<<Str(<<"S","t","r">>), Str(<<"F","u","n">>)>>))
                  @@ (k_Measurement :> List(<<Str(<<"T","1">>)>>))
                  @@ (k_Features :> List(<<>>)))) }

TagSets ==
    { EmptyDict,
      Dict((k_Modality :> Str(<<"M","R">>))
           @@ (s_PixelSpacing :> List(<<Num(<<"0",".","5">>), Num(<<"0",".","7">>)>>))),
      Dict((k_Modality :> Str(<<"P","T">>))
           @@ (s_RadiopharmaceuticalInformationSequence :>
                 List(<<Dict((s_Radiopharmaceutical :> Str(<<"F","D","G">>))
                             @@ (s_RadionuclideCodeSequence :>
                                   List(<<Dict(s_CodeMeaning :> Str(<<"F","1","8">>))>>)))>>))),
      Dict(s_RadiopharmaceuticalInformationSequence :> List(<<>>)),
      Dict(s_RadiopharmaceuticalInformationSequence :> List(<<EmptyDict>>)),
      Dict(s_RadiopharmaceuticalInformationSequence :>
             List(<<Dict(s_RadionuclideCodeSequence :> List(<<>>))>>)) }

ColumnSess ==
    [indd_id |-> Str(<<"1","2","3","4","5","6">>),
     subject_id |-> <<"I","N","D","D","1","2","3","4","5","6">>,
     session_ts |-> <<"2","0","2","0","-","0","1","-","0","2",
                      " ","0","3",":","0","4",":","0","5">>]

ColumnAcq ==
    [label |-> <<"T","1","w">>,
     parents |-> [session |-> <<"s","1">>, project |-> <<"p","1">>]]

ColumnInit ==
    /\ column \in ColumnNames
    /\ fw_file \in FileRefs
    /\ dcm \in TagSets
    /\ output_text = Pending
    /\ FilterIdle
    /\ RunIdle

ApplyColumn ==
    /\ output_text = Pending
    /\ output_text' = make_output_text(ColumnSess, ColumnAcq, fw_file, dcm, column)
    /\ UNCHANGED <<column, fw_file, dcm, filter_vars, run_vars>>

SpecColumn == ColumnInit /\ [][ApplyColumn]_vars

\* C9: make_output_text resolves a column by the precedence literal columns,
\* FlywheelAcquisition-prefixed classification key, the four composite
\* columns, Dicom-prefixed tag, default; it returns a string for every column
\* name and context and never raises.
ClaimedComposite ==
    { s_DicomPixelSpacing \o <<"X">>, s_DicomPixelSpacing \o <<"Y">>,
      s_Dicom \o s_Radiopharmaceutical,
      s_Dicom \o <<"R","a","d","i","o","n","u","c","l","i","d","e">> }

ClaimedColumnVal(sess, fw_acq, file, tags, col) ==
    IF col \in action_dict_keys
    THEN action_dict(sess, fw_acq, col)
    ELSE IF StartsWith(col, s_FlywheelAcquisition)
    THEN classification_val(file, col)
    ELSE IF col \in ClaimedComposite
    THEN column_val(sess, fw_acq, file, tags, col)
    ELSE IF StartsWith(col, s_Dicom)
    THEN Get(tags, DropFirst(col, Len(s_Dicom)), None)
    ELSE None

C9_ColumnAsClaimed ==
    output_text # Pending =>
        /\ output_text.t = "str"
        /\ output_text =
             Str(Format(ClaimedColumnVal(ColumnSess, ColumnAcq, fw_file, dcm, column)))

====
